---- MODULE Spec2Model ----
(***************************************************************************)
(* Model of the BunkerWeb reports indexer (bw_indexer.py) and of the       *)
(* search API (bw_api.py) over a Redis-like storage.                       *)
(*                                                                         *)
(* The storage is the keyspace of one prefix: dedupe markers seen:<id>,    *)
(* forward records req:<id>, the time index requests:by_date and the       *)
(* attribute sets <kind>:<value>.  A key exists iff it is in the DOMAIN    *)
(* of its map; a deadline of 0 means "no expiry".  Every storage command   *)
(* is one atomic step, and the two pipelines of a batch are not            *)
(* transactions: their commands interleave with those of other clients.    *)
(* One clock tick is one day (86400 s).                                    *)
(***************************************************************************)
EXTENDS Integers, Sequences, FiniteSets, TLC

VARIABLES source, ttl_days, now, seen, req, zset, sets, run, srch, ghost

vars == <<source, ttl_days, now, seen, req, zset, sets, run, srch, ghost>>
store == <<seen, req, zset, sets>>

(***************************************************************************)
(* Bounds of the model.                                                    *)
(***************************************************************************)
MaxLen == 3
MaxChunk == 2
MaxTime == 2
MaxTtlDays == 2

Runs == {1, 2}

(***************************************************************************)
(* JSON values as Python sees them: a missing key, null, a string or an    *)
(* integer.  s is str(v), n the number.                                    *)
(***************************************************************************)
JAbsent == [t |-> "absent", s |-> "", n |-> 0]
JNull == [t |-> "null", s |-> "None", n |-> 0]
JStr(x) == [t |-> "str", s |-> x, n |-> 0]
JInt(k) == [t |-> "int", s |-> ToString(k), n |-> k]

\* url and user_agent are texts: sequences of characters, so that `in` and
\* lower() are computed and not assumed
TAbsent == [t |-> "absent", s |-> <<>>, n |-> 0]
TNull == [t |-> "null", s |-> <<"N", "o", "n", "e">>, n |-> 0]
JTxt(x) == [t |-> "str", s |-> x, n |-> 0]

\* obj.get(field): a missing key and null both give None
IsNone(v) == v.t \in {"absent", "null"}
\* Python truthiness of a JSON value: None, "" and 0 are falsy
Truthy(v) == (v.t = "str" /\ v.s # "") \/ (v.t = "int" /\ v.n # 0)
\* the strings float() accepts, among those of the model
NumericStrings == {"1", "2", "3"}
StrToNum(s) == IF s = "1" THEN 1 ELSE IF s = "2" THEN 2 ELSE 3
\* float(ts) raises for None and for a string that is no number
FloatOk(v) == v.t = "int" \/ (v.t = "str" /\ v.s \in NumericStrings)
FloatVal(v) == IF v.t = "int" THEN v.n ELSE StrToNum(v.s)
\* rid.encode() exists for str only
CanEncode(v) == v.t = "str"

(***************************************************************************)
(* Entries of the source list.  shape "badjson": bytes json.loads rejects; *)
(* "nonobj": JSON that is no object (a number, a string, a list, null);    *)
(* "obj": a JSON object with the fields below.                             *)
(***************************************************************************)
Rec(id, date, ip, mode, status, url, ua) ==
    [shape |-> "obj", id |-> id, date |-> date, ip |-> ip,
     server_name |-> JAbsent, security_mode |-> mode, status |-> status,
     reason |-> JAbsent, country |-> JAbsent, method |-> JAbsent,
     url |-> url, user_agent |-> ua]
NotObj(shape) ==
    [shape |-> shape, id |-> JAbsent, date |-> JAbsent, ip |-> JAbsent,
     server_name |-> JAbsent, security_mode |-> JAbsent, status |-> JAbsent,
     reason |-> JAbsent, country |-> JAbsent, method |-> JAbsent,
     url |-> TAbsent, user_agent |-> TAbsent]

eA1 == Rec(JStr("a"), JInt(1), JStr("1.2.3.4"), JStr("block"), JInt(403), JTxt(<<"/", "a", "d">>), JTxt(<<"M", "o", "z">>))
eA2 == Rec(JStr("a"), JInt(3), JStr("5.6.7.8"), JStr("allow"), JInt(200), JTxt(<<"/">>), JTxt(<<"c", "u">>))
eB == Rec(JStr("b"), JStr("2"), JStr("1.2.3.4"), JStr("block"), JAbsent, JTxt(<<"/", "l">>), TAbsent)
eBnoDate == Rec(JStr("b"), JAbsent, JStr("1.2.3.4"), JStr(""), JNull, TAbsent, TAbsent)
eBbadDate == Rec(JStr("b"), JStr("x"), JAbsent, JAbsent, JAbsent, TAbsent, TAbsent)
eNoId == Rec(JAbsent, JInt(1), JStr("1.2.3.4"), JAbsent, JAbsent, TAbsent, TAbsent)
eEmptyId == Rec(JStr(""), JInt(1), JAbsent, JAbsent, JAbsent, TAbsent, TAbsent)
eIntId == Rec(JInt(7), JInt(2), JStr("1.2.3.4"), JAbsent, JAbsent, TAbsent, TAbsent)
eIntIdBare == Rec(JInt(7), JInt(2), JAbsent, JAbsent, JAbsent, TNull, TAbsent)
eC == [Rec(JStr("c"), JInt(2), JStr("5.6.7.8"), JStr("block"), JInt(403), JTxt(<<"/", "a", "d">>), JTxt(<<"m", "o", "z">>)) EXCEPT !.reason = JStr("bot")]
eNullId == Rec(JNull, JInt(1), JStr("1.2.3.4"), JStr("block"), JAbsent, TAbsent, TAbsent)
eBadJson == NotObj("badjson")
eNonObj == NotObj("nonobj")

AllEntries == {eA1, eA2, eB, eBnoDate, eBbadDate, eNoId, eEmptyId, eNullId, eIntId,
               eIntIdBare, eBadJson, eNonObj}

\* the source lists of at most n entries drawn from U
Sources(U, n) == UNION {[1..k -> U] : k \in 0..n}

(***************************************************************************)
(* Storage commands.                                                       *)
(***************************************************************************)
Put(f, k, v) == [x \in DOMAIN f \cup {k} |-> IF x = k THEN v ELSE f[x]]
Drop(f, K) == [x \in DOMAIN f \ K |-> f[x]]
Expired(e, t) == e # 0 /\ e <= t

\* ttl = args.ttl_days * 86400 if args.ttl_days > 0 else None, in days
ttl == IF ttl_days > 0 THEN ttl_days ELSE 0

\* key builders: the id (or kind and value) as it is formatted into the key
seen_key(rid) == rid.s
req_key(rid) == rid.s
set_key(kind, val) == <<kind, val>>

\* the attribute kinds and the record field each one indexes, in code order
KindFields == << <<"ip", "ip">>, <<"server", "server_name">>,
                 <<"mode", "security_mode">>, <<"status", "status">>,
                 <<"reason", "reason">>, <<"country", "country">>,
                 <<"method", "method">> >>

Cmd(op, pos, kind, val) == [op |-> op, pos |-> pos, kind |-> kind, val |-> val]

\* SET seen:<id> 1 NX [EX ttl]: TRUE iff the key did not exist
SetNxWins_Plain(c) == TRUE
SetNxWins(c) == seen_key(source[c.pos].id) \notin DOMAIN seen
SetNx_Forget(c) == seen
SetNx(c) ==
    IF SetNxWins(c)
    THEN Put(seen, seen_key(source[c.pos].id), IF ttl # 0 THEN now + ttl ELSE 0)
    ELSE seen

\* SET req:<id> raw: the value is replaced and any expiry is cleared
SetReq(c) == Put(req, req_key(source[c.pos].id), [raw |-> source[c.pos], exp |-> 0])
\* EXPIRE req:<id> ttl
ExpireReq(c) ==
    LET k == req_key(source[c.pos].id) IN
    IF k \in DOMAIN req THEN [req EXCEPT ![k].exp = now + ttl] ELSE req
\* ZADD requests:by_date {rid: ts}
ZAdd(c) == Put(zset, source[c.pos].id.s, FloatVal(source[c.pos].date))
\* SADD <kind>:<val> rid
SAdd(c) ==
    LET k == set_key(c.kind, c.val) IN
    IF k \in DOMAIN sets
    THEN [sets EXCEPT ![k].mem = @ \cup {source[c.pos].id.s}]
    ELSE Put(sets, k, [mem |-> {source[c.pos].id.s}, exp |-> 0])
\* EXPIRE <kind>:<val> ttl
ExpireSet(c) ==
    LET k == set_key(c.kind, c.val) IN
    IF k \in DOMAIN sets THEN [sets EXCEPT ![k].exp = now + ttl] ELSE sets

(***************************************************************************)
(* The two passes of a batch (bw_indexer.py, main).                        *)
(***************************************************************************)
\* r.lrange(source_key, start, min(start + chunk - 1, total - 1)), as positions
Items(start, chunk, total) ==
    LET last == IF start + chunk - 1 < total - 1 THEN start + chunk - 1 ELSE total - 1
        n == IF last + 1 > Len(source) THEN Len(source) ELSE last + 1
    IN [i \in 1..(n - start) |-> start + i]

\* first pass: parse, count the rejects, queue one SET NX per parsed entry.
\* obj.get on JSON that is no object raises AttributeError: the run dies.
RECURSIVE AdmissionPass_NoContinue(_, _, _)
AdmissionPass_NoContinue(items, i, acc) ==
    IF i > Len(items) \/ acc.crashed THEN acc
    ELSE LET raw == source[items[i]] IN
         IF raw.shape = "badjson"
         THEN AdmissionPass_NoContinue(items, i + 1, [acc EXCEPT !.bad_json = @ + 1])
         ELSE IF raw.shape # "obj"
         THEN [acc EXCEPT !.crashed = TRUE]
         ELSE AdmissionPass_NoContinue(items, i + 1,
                  [acc EXCEPT !.no_id = IF Truthy(raw.id) THEN @ ELSE @ + 1,
                              !.parsed = Append(@, items[i]),
                              !.pipe = Append(@, Cmd("setnx", items[i], "", ""))])
RECURSIVE AdmissionPass(_, _, _)
AdmissionPass(items, i, acc) ==
    IF i > Len(items) \/ acc.crashed THEN acc
    ELSE LET raw == source[items[i]] IN
         IF raw.shape = "badjson"
         THEN AdmissionPass(items, i + 1, [acc EXCEPT !.bad_json = @ + 1])
         ELSE IF raw.shape # "obj"
         THEN [acc EXCEPT !.crashed = TRUE]
         ELSE IF ~Truthy(raw.id)
         THEN AdmissionPass(items, i + 1, [acc EXCEPT !.no_id = @ + 1])
         ELSE AdmissionPass(items, i + 1,
                  [acc EXCEPT !.parsed = Append(@, items[i]),
                              !.pipe = Append(@, Cmd("setnx", items[i], "", ""))])

\* the SADD (and EXPIRE) commands of one record, kinds j..7
RECURSIVE AttrCmds(_, _)
AttrCmds(pos, j) ==
    IF j > Len(KindFields) THEN <<>>
    ELSE LET kind == KindFields[j][1]
             v == source[pos][KindFields[j][2]]
         IN IF IsNone(v) \/ (v.t = "str" /\ v.s = "")
            THEN AttrCmds(pos, j + 1)
            ELSE <<Cmd("sadd", pos, kind, v.s)>>
                 \o (IF ttl # 0 THEN <<Cmd("expire_set", pos, kind, v.s)>> ELSE <<>>)
                 \o AttrCmds(pos, j + 1)

RecordCmds_IndexFirst(pos) ==
    <<Cmd("zadd", pos, "", "")>>
    \o AttrCmds(pos, 1)
    \o <<Cmd("set", pos, "", "")>>
    \o (IF ttl # 0 THEN <<Cmd("expire_req", pos, "", "")>> ELSE <<>>)
\* the commands that commit one record
RecordCmds(pos) ==
    <<Cmd("set", pos, "", "")>>
    \o (IF ttl # 0 THEN <<Cmd("expire_req", pos, "", "")>> ELSE <<>>)
    \o <<Cmd("zadd", pos, "", "")>>
    \o AttrCmds(pos, 1)

\* second pass: queue the commit of every newly marked record with a date.
\* rid.encode() on an id that is no str raises AttributeError: the run dies
\* with nothing of this batch's second pipeline sent.
RECURSIVE CommitPass_AllNew(_, _, _, _)
CommitPass_AllNew(parsed, is_new_list, i, acc) ==
    IF i > Len(parsed) \/ acc.crashed THEN acc
    ELSE LET obj == source[parsed[i]] IN
         IF ~FloatOk(obj.date)
         THEN CommitPass_AllNew(parsed, is_new_list, i + 1, [acc EXCEPT !.no_date = @ + 1])
         ELSE IF AttrCmds(parsed[i], 1) # <<>> /\ ~CanEncode(obj.id)
         THEN [acc EXCEPT !.crashed = TRUE]
         ELSE CommitPass_AllNew(parsed, is_new_list, i + 1,
                  [acc EXCEPT !.pipe = @ \o RecordCmds(parsed[i]),
                              !.new_count = @ + 1])
RECURSIVE CommitPass_DateOptional(_, _, _, _)
CommitPass_DateOptional(parsed, is_new_list, i, acc) ==
    IF i > Len(parsed) \/ acc.crashed THEN acc
    ELSE LET obj == source[parsed[i]] IN
         IF ~is_new_list[i]
         THEN CommitPass_DateOptional(parsed, is_new_list, i + 1, acc)
         ELSE IF AttrCmds(parsed[i], 1) # <<>> /\ ~CanEncode(obj.id)
         THEN [acc EXCEPT !.crashed = TRUE]
         ELSE IF ~FloatOk(obj.date)
         THEN CommitPass_DateOptional(parsed, is_new_list, i + 1,
                  [acc EXCEPT !.pipe = @ \o <<Cmd("set", parsed[i], "", "")>>
                                         \o AttrCmds(parsed[i], 1),
                              !.no_date = @ + 1,
                              !.new_count = @ + 1])
         ELSE CommitPass_DateOptional(parsed, is_new_list, i + 1,
                  [acc EXCEPT !.pipe = @ \o RecordCmds(parsed[i]),
                              !.new_count = @ + 1])
RECURSIVE CommitPass(_, _, _, _)
CommitPass(parsed, is_new_list, i, acc) ==
    IF i > Len(parsed) \/ acc.crashed THEN acc
    ELSE LET obj == source[parsed[i]] IN
         IF ~is_new_list[i]
         THEN CommitPass(parsed, is_new_list, i + 1, acc)
         ELSE IF ~FloatOk(obj.date)
         THEN CommitPass(parsed, is_new_list, i + 1, [acc EXCEPT !.no_date = @ + 1])
         ELSE IF AttrCmds(parsed[i], 1) # <<>> /\ ~CanEncode(obj.id)
         THEN [acc EXCEPT !.crashed = TRUE]
         ELSE CommitPass(parsed, is_new_list, i + 1,
                  [acc EXCEPT !.pipe = @ \o RecordCmds(parsed[i]),
                              !.new_count = @ + 1])

(***************************************************************************)
(* An indexer run.                                                         *)
(***************************************************************************)
IdleRun ==
    [pc |-> "idle", chunk |-> 0, total |-> 0, start |-> 0, parsed |-> <<>>,
     is_new_list |-> <<>>, pipe |-> <<>>, new_count |-> 0, bad_json |-> 0,
     no_id |-> 0, no_date |-> 0]

\* the for loop: the next value of range(0, total, chunk), or the summary
NextBatch(rs) ==
    IF rs.start + rs.chunk < rs.total
    THEN [rs EXCEPT !.pc = "read", !.start = @ + rs.chunk, !.parsed = <<>>,
                    !.is_new_list = <<>>, !.pipe = <<>>]
    ELSE [rs EXCEPT !.pc = "done", !.parsed = <<>>, !.is_new_list = <<>>,
                    !.pipe = <<>>]

\* what follows the first pipeline: the second pass, then `if new_count:`
AfterAdmission(rs) ==
    LET acc == CommitPass(rs.parsed, rs.is_new_list, 1,
                   [pipe |-> <<>>, new_count |-> rs.new_count,
                    no_date |-> rs.no_date, crashed |-> FALSE])
        rs2 == [rs EXCEPT !.new_count = acc.new_count, !.no_date = acc.no_date]
    IN IF acc.crashed THEN [rs2 EXCEPT !.pc = "crashed", !.pipe = <<>>]
       ELSE IF acc.new_count # 0 /\ acc.pipe # <<>>
       THEN [rs2 EXCEPT !.pc = "commit", !.pipe = acc.pipe]
       ELSE NextBatch(rs2)

Snapshot == [seen |-> seen, req |-> req, zset |-> zset, sets |-> sets]

\* ghost bookkeeping when a run record changes: its start and end
Finish(r, rs, g, snapshot) ==
    IF rs.pc \in {"done", "crashed"}
    THEN [g EXCEPT !.ended[r] = TRUE, !.snap[r] = snapshot,
                   !.expAtEnd[r] = g.lastExpiry]
    ELSE g
Bump(b, k) == IF k \in DOMAIN b THEN [b EXCEPT ![k] = @ + 1] ELSE Put(b, k, 1)
CountOf(b, k) == IF k \in DOMAIN b THEN b[k] ELSE 0

\* total = r.llen(source_key); an empty list goes straight to the summary
StartRun(r, c) ==
    /\ run[r].pc = "idle"
    /\ Len(ghost.order) < ghost.maxRuns
    /\ \A q \in Runs : q < r => run[q].pc # "idle"
    /\ ghost.concurrent \/ \A q \in Runs \ {r} : run[q].pc \in {"idle", "done", "crashed"}
    /\ LET rs == [IdleRun EXCEPT !.chunk = c, !.total = Len(source),
                                 !.pc = IF Len(source) > 0 THEN "read" ELSE "done"]
       IN /\ run' = [run EXCEPT ![r] = rs]
          /\ ghost' = [Finish(r, rs, ghost, Snapshot) EXCEPT
                          !.t0[r] = now, !.order = Append(@, r),
                          !.before[r] = Snapshot]
    /\ UNCHANGED <<source, ttl_days, now, store, srch>>

\* lrange and the first pass up to p.execute()
ReadBatch(r) ==
    /\ run[r].pc = "read"
    /\ LET rs == run[r]
           items == Items(rs.start, rs.chunk, rs.total)
           acc == AdmissionPass(items, 1,
                      [parsed |-> <<>>, pipe |-> <<>>, bad_json |-> rs.bad_json,
                       no_id |-> rs.no_id, crashed |-> FALSE])
           rs2 == [rs EXCEPT !.bad_json = acc.bad_json, !.no_id = acc.no_id,
                             !.parsed = acc.parsed, !.is_new_list = <<>>]
           rs3 == IF Len(items) = 0 THEN [rs2 EXCEPT !.pc = "done"]
                  ELSE IF acc.crashed THEN [rs2 EXCEPT !.pc = "crashed", !.parsed = <<>>]
                  ELSE IF acc.parsed = <<>> THEN AfterAdmission(rs2)
                  ELSE [rs2 EXCEPT !.pc = "admit", !.pipe = acc.pipe]
           g == [ghost EXCEPT
                    !.batches[r] = @ + 1,
                    !.lastBatch[r] = items,
                    !.reads[r] = [i \in DOMAIN @ \cup {items[j] : j \in 1..Len(items)} |->
                                     CountOf(@, i)
                                     + Cardinality({j \in 1..Len(items) : items[j] = i})]]
       IN /\ run' = [run EXCEPT ![r] = rs3]
          /\ ghost' = Finish(r, rs3, g, Snapshot)
    /\ UNCHANGED <<source, ttl_days, now, store, srch>>

\* one SET NX of the first pipeline; after the last, the second pass runs
AdmitStep(r) ==
    /\ run[r].pc = "admit"
    /\ LET rs == run[r]
           c == Head(rs.pipe)
           won == SetNxWins(c)
           rs2 == [rs EXCEPT !.pipe = Tail(@), !.is_new_list = Append(@, won)]
           rs3 == IF rs2.pipe = <<>> THEN AfterAdmission(rs2) ELSE rs2
           g == IF won THEN [ghost EXCEPT !.ops = @ + 1,
                                          !.wins[r] = Bump(@, seen_key(source[c.pos].id)),
                                          !.dated = Put(@, seen_key(source[c.pos].id), FloatOk(source[c.pos].date)),
                                          !.poison[r] =
                                              IF FloatOk(source[c.pos].date) THEN @
                                              ELSE Bump(@, seen_key(source[c.pos].id))]
                ELSE [ghost EXCEPT !.ops = @ + 1]
       IN /\ seen' = SetNx(c)
          /\ run' = [run EXCEPT ![r] = rs3]
          /\ ghost' = Finish(r, rs3, g, [Snapshot EXCEPT !.seen = SetNx(c)])
    /\ UNCHANGED <<source, ttl_days, now, req, zset, sets, srch>>

\* one command of the second pipeline; after the last, the next batch
CommitStep(r) ==
    /\ run[r].pc = "commit"
    /\ LET rs == run[r]
           c == Head(rs.pipe)
           rs2 == [rs EXCEPT !.pipe = Tail(@)]
           rs3 == IF rs2.pipe = <<>> THEN NextBatch(rs2) ELSE rs2
           g == IF c.op = "set"
                THEN [ghost EXCEPT !.ops = @ + 1,
                                   !.commits[r] = Bump(@, req_key(source[c.pos].id))]
                ELSE IF c.op = "expire_req"
                THEN [ghost EXCEPT !.ops = @ + 1,
                                   !.horizon = Put(@, req_key(source[c.pos].id), now + ttl)]
                ELSE [ghost EXCEPT !.ops = @ + 1]
       IN /\ req' = IF c.op = "set" THEN SetReq(c)
                    ELSE IF c.op = "expire_req" THEN ExpireReq(c) ELSE req
          /\ zset' = IF c.op = "zadd" THEN ZAdd(c) ELSE zset
          /\ sets' = IF c.op = "sadd" THEN SAdd(c)
                     ELSE IF c.op = "expire_set" THEN ExpireSet(c) ELSE sets
          /\ run' = [run EXCEPT ![r] = rs3]
          /\ ghost' = Finish(r, rs3, g, [seen |-> seen, req |-> req', zset |-> zset',
                                          sets |-> sets'])
    /\ UNCHANGED <<source, ttl_days, now, seen, srch>>

\* the process is killed: whatever it had not yet sent is never sent, and no
\* summary is printed.  Nothing undoes the commands already executed.
Kill(r) ==
    /\ run[r].pc \in {"read", "admit", "commit"}
    /\ LET rs == [run[r] EXCEPT !.pc = "crashed", !.pipe = <<>>]
       IN /\ run' = [run EXCEPT ![r] = rs]
          /\ ghost' = Finish(r, rs, ghost, Snapshot)
    /\ UNCHANGED <<source, ttl_days, now, store, srch>>

\* a day passes: every key whose deadline is reached is gone.  A pipeline is
\* one round trip and lasts less than a day, so days pass between pipelines.
Tick ==
    /\ ttl # 0
    /\ now < MaxTime
    /\ \A r \in Runs : run[r].pc \notin {"admit", "commit"}
    /\ now' = now + 1
    /\ seen' = Drop(seen, {k \in DOMAIN seen : Expired(seen[k], now + 1)})
    /\ req' = Drop(req, {k \in DOMAIN req : Expired(req[k].exp, now + 1)})
    /\ sets' = Drop(sets, {k \in DOMAIN sets : Expired(sets[k].exp, now + 1)})
    /\ ghost' = IF seen' # seen \/ req' # req \/ sets' # sets
                THEN [ghost EXCEPT !.ops = @ + 1, !.lastExpiry = now + 1]
                ELSE [ghost EXCEPT !.ops = @ + 1]
    /\ UNCHANGED <<source, ttl_days, zset, run, srch>>

(***************************************************************************)
(* The search API (bw_api.py).  Epoch values are <<hi, lo, us>>:           *)
(* hi * 10^6 + lo seconds and us microseconds, compared lexicographically, *)
(* so that 10^10 and the division by 1000 are exact.                       *)
(***************************************************************************)
MsThresholdHi == 10000
TopN == 10
Limb == 1000 * 1000

TimeOf(k) == <<0, k, 0>>
TLeq(x, y) ==
    \/ x[1] < y[1]
    \/ x[1] = y[1] /\ x[2] < y[2]
    \/ x[1] = y[1] /\ x[2] = y[2] /\ x[3] <= y[3]

\* a start/end value: k = "missing" (no parameter), "num" (digits, at most
\* one dot: hi * 10^6 + lo and ms thousandths), "iso" (a date dateutil
\* parses, given by its timestamp) or "bad" (dateutil raises)
TimeArg(k, hi, lo, ms) == [k |-> k, hi |-> hi, lo |-> lo, ms |-> ms]

to_epoch_Inclusive(x) ==
    IF x.k = "num"
    THEN IF x.hi >= MsThresholdHi
         THEN LET sec == x.hi * 1000 + (x.lo \div 1000)
              IN [ok |-> TRUE, v |-> <<sec \div Limb, sec % Limb, (x.lo % 1000) * 1000 + x.ms>>]
         ELSE [ok |-> TRUE, v |-> <<x.hi, x.lo, x.ms * 1000>>]
    ELSE IF x.k = "iso"
    THEN [ok |-> TRUE, v |-> <<x.hi, x.lo, x.ms * 1000>>]
    ELSE [ok |-> FALSE, v |-> <<0, 0, 0>>]
to_epoch(x) ==
    IF x.k = "num"
    THEN IF x.hi > MsThresholdHi \/ (x.hi = MsThresholdHi /\ (x.lo > 0 \/ x.ms > 0))
         THEN LET sec == x.hi * 1000 + (x.lo \div 1000)
              IN [ok |-> TRUE, v |-> <<sec \div Limb, sec % Limb, (x.lo % 1000) * 1000 + x.ms>>]
         ELSE [ok |-> TRUE, v |-> <<x.hi, x.lo, x.ms * 1000>>]
    ELSE IF x.k = "iso"
    THEN [ok |-> TRUE, v |-> <<x.hi, x.lo, x.ms * 1000>>]
    ELSE [ok |-> FALSE, v |-> <<0, 0, 0>>]

\* the byte order of the ids of the model
IdOrder == <<"7", "a", "b", "c", "d", "e", "f", "g", "h", "i", "j", "k", "l">>
IdRank(x) == CHOOSE i \in 1..Len(IdOrder) : IdOrder[i] = x

\* ZRANGEBYSCORE requests:by_date lo hi: ascending score, ties by member
RECURSIVE SortIds(_)
SortIds(S) ==
    IF S = {} THEN <<>>
    ELSE LET m == CHOOSE x \in S : \A y \in S :
                      \/ zset[x] < zset[y]
                      \/ zset[x] = zset[y] /\ IdRank(x) <= IdRank(y)
         IN <<m>> \o SortIds(S \ {m})
zrangebyscore(lo, hi) ==
    SortIds({x \in DOMAIN zset : TLeq(lo, TimeOf(zset[x])) /\ TLeq(TimeOf(zset[x]), hi)})

Reverse(q) == [i \in 1..Len(q) |-> q[Len(q) + 1 - i]]
\* q[:limit]
Take(q, limit) ==
    LET n == IF limit >= 0 THEN (IF limit < Len(q) THEN limit ELSE Len(q))
             ELSE (IF Len(q) + limit > 0 THEN Len(q) + limit ELSE 0)
    IN SubSeq(q, 1, n)

Params(start, end, ip, mode, status, url_contains, ua_contains, order, limit) ==
    [start |-> start, end |-> end, ip |-> ip, server_name |-> JAbsent,
     security_mode |-> mode, status |-> status, reason |-> JAbsent,
     country |-> JAbsent, method |-> JAbsent, url_contains |-> url_contains,
     ua_contains |-> ua_contains, order |-> order, limit |-> limit]

\* the exact filters a request supplies, in the order the code applies them:
\* `if ip:` etc. skip None and "", `if status is not None` skips None only
Filters(p) ==
    LET all == << <<"ip", p.ip>>, <<"server", p.server_name>>,
                  <<"mode", p.security_mode>>, <<"status", p.status>>,
                  <<"reason", p.reason>>, <<"country", p.country>>,
                  <<"method", p.method>> >>
        on(f) == IF f[1] = "status" THEN ~IsNone(f[2]) ELSE Truthy(f[2])
        kept == SelectSeq(all, on)
    IN [i \in 1..Len(kept) |-> <<kept[i][1], kept[i][2].s>>]

\* candidates.intersection(r.smembers(key))
intersect(candidates, kind, value) ==
    LET key == set_key(kind, value)
    IN candidates \cap (IF key \in DOMAIN sets THEN sets[key].mem ELSE {})

\* ordered = [rid for rid in ids if rid in candidates][:limit]
Ordered_NoLimit(ids, candidates, limit) ==
    SelectSeq(ids, LAMBDA x : x \in candidates)
Ordered(ids, candidates, limit) ==
    Take(SelectSeq(ids, LAMBDA x : x \in candidates), limit)

LowerChar(c) ==
    IF c = "M" THEN "m" ELSE IF c = "N" THEN "n" ELSE IF c = "C" THEN "c" ELSE c
Lower(q) == [i \in 1..Len(q) |-> LowerChar(q[i])]
\* needle in hay
Contains(needle, hay) ==
    \E i \in 0..(Len(hay) - Len(needle)) : SubSeq(hay, i + 1, i + Len(needle)) = needle
\* str(obj.get(field, "")) of a text field
TextOf(v) == v.s

\* url_contains and ua_contains on a fetched record: TRUE when it is kept
PassesContains(p, obj) ==
    /\ ~(p.url_contains.s # <<>> /\ ~Contains(p.url_contains.s, TextOf(obj.url)))
    /\ ~(p.ua_contains.s # <<>>
         /\ ~Contains(Lower(p.ua_contains.s), Lower(TextOf(obj.user_agent))))

\* Counter(values).most_common(TopN): descending count, ties by first occurrence
Count(q, v) == Cardinality({i \in 1..Len(q) : q[i] = v})
FirstAt(q, v) == CHOOSE i \in 1..Len(q) : q[i] = v /\ \A j \in 1..(i - 1) : q[j] # v
RECURSIVE MostCommon_Uncapped(_, _, _)
MostCommon_Uncapped(q, S, n) ==
    IF S = {} THEN <<>>
    ELSE LET m == CHOOSE v \in S : \A w \in S :
                      \/ Count(q, v) > Count(q, w)
                      \/ Count(q, v) = Count(q, w) /\ FirstAt(q, v) <= FirstAt(q, w)
         IN <<[value |-> m, count |-> Count(q, m)]>> \o MostCommon_Uncapped(q, S \ {m}, n)
RECURSIVE MostCommon(_, _, _)
MostCommon(q, S, n) ==
    IF S = {} \/ n = 0 THEN <<>>
    ELSE LET m == CHOOSE v \in S : \A w \in S :
                      \/ Count(q, v) > Count(q, w)
                      \/ Count(q, v) = Count(q, w) /\ FirstAt(q, v) <= FirstAt(q, w)
         IN <<[value |-> m, count |-> Count(q, m)]>> \o MostCommon(q, S \ {m}, n - 1)
Project(results, field) ==
    LET all == [i \in 1..Len(results) |-> results[i].raw[field]]
        keep(v) == IF v.t = "str" THEN Len(v.s) > 0 ELSE v.t = "int" /\ v.n # 0
    IN SelectSeq(all, keep)
TopOf(results, field) ==
    LET q == Project(results, field)
    IN MostCommon(q, {q[i] : i \in 1..Len(q)}, TopN)
TopOfAttr(results, field) ==
    LET all == [i \in 1..Len(results) |-> results[i].raw[field]]
        q == SelectSeq(all, Truthy)
    IN MostCommon(q, {q[i] : i \in 1..Len(q)}, TopN)

NoParams ==
    Params(TimeArg("missing", 0, 0, 0), TimeArg("missing", 0, 0, 0), JAbsent,
           JAbsent, JAbsent, TAbsent, TAbsent, "newest", 0)
NoResp == [count |-> 0, top_ips |-> <<>>, top_urls |-> <<>>, top_reasons |-> <<>>,
           results |-> <<>>]
IdleSearch ==
    [pc |-> "idle", p |-> NoParams, start_ts |-> <<0, 0, 0>>, end_ts |-> <<0, 0, 0>>,
     ids |-> <<>>, candidates |-> {}, todo |-> <<>>, ordered |-> <<>>,
     results |-> <<>>, resp |-> NoResp, code |-> 0,
     at |-> 0, quiet |-> FALSE]

\* after the last intersection: the ordered list; an empty one goes to the end
ToFetch(q) ==
    LET o == Ordered(q.ids, q.candidates, q.p.limit)
    IN [q EXCEPT !.ordered = o, !.pc = IF o = <<>> THEN "aggregate" ELSE "fetch"]

\* the request arrives: validation of start/end, to_epoch, ZRANGEBYSCORE.
\* A missing start or end is rejected by the framework (422); an exception
\* of to_epoch is not caught by the handler (500).
SearchBegin(p) ==
    /\ srch.pc = "idle"
    /\ LET s == to_epoch(p.start)
           e == to_epoch(p.end)
           ids0 == zrangebyscore(s.v, e.v)
           ids == IF p.order = "newest" THEN Reverse(ids0) ELSE ids0
           q == [srch EXCEPT !.p = p, !.at = ghost.ops]
           q2 == [q EXCEPT !.start_ts = s.v, !.end_ts = e.v, !.ids = ids,
                           !.candidates = {ids[i] : i \in 1..Len(ids)},
                           !.todo = Filters(p), !.pc = "filter"]
       IN srch' = IF p.start.k = "missing" \/ p.end.k = "missing"
                  THEN [q EXCEPT !.pc = "error", !.code = 422]
                  ELSE IF ~s.ok \/ ~e.ok
                  THEN [q EXCEPT !.pc = "error", !.code = 500]
                  ELSE IF q2.todo = <<>> THEN ToFetch(q2) ELSE q2
    /\ UNCHANGED <<source, ttl_days, now, store, run, ghost>>

\* one SMEMBERS and the intersection with it
SearchIntersect ==
    /\ srch.pc = "filter"
    /\ LET f == Head(srch.todo)
           q == [srch EXCEPT !.candidates = intersect(@, f[1], f[2]), !.todo = Tail(@)]
       IN srch' = IF q.todo = <<>> THEN ToFetch(q) ELSE q
    /\ UNCHANGED <<source, ttl_days, now, store, run, ghost>>

SearchFetch_Purge ==
    /\ srch.pc = "fetch"
    /\ LET rid == Head(srch.ordered)
           q == [srch EXCEPT !.ordered = Tail(@)]
           pc2 == IF q.ordered = <<>> THEN "aggregate" ELSE "fetch"
       IN /\ srch' =
               IF rid \notin DOMAIN req THEN [q EXCEPT !.pc = pc2]
               ELSE LET obj == req[rid].raw IN
                    IF ~PassesContains(srch.p, obj) THEN [q EXCEPT !.pc = pc2]
                    ELSE [q EXCEPT !.pc = pc2,
                                   !.results = Append(@,
                                       [raw |-> obj, date_human |-> FloatVal(obj.date)])]
          /\ zset' = IF rid \notin DOMAIN req THEN Drop(zset, {rid}) ELSE zset
    /\ UNCHANGED <<source, ttl_days, now, seen, req, sets, run, ghost>>

SearchFetch_Strict ==
    /\ srch.pc = "fetch"
    /\ LET rid == Head(srch.ordered)
           q == [srch EXCEPT !.ordered = Tail(@)]
           pc2 == IF q.ordered = <<>> THEN "aggregate" ELSE "fetch"
       IN srch' =
            IF rid \notin DOMAIN req THEN [q EXCEPT !.pc = "error", !.code = 500]
            ELSE LET obj == req[rid].raw IN
                 IF ~PassesContains(srch.p, obj) THEN [q EXCEPT !.pc = pc2]
                 ELSE [q EXCEPT !.pc = pc2,
                                !.results = Append(@,
                                    [raw |-> obj, date_human |-> FloatVal(obj.date)])]
    /\ UNCHANGED <<source, ttl_days, now, store, run, ghost>>

\* one GET req:<id>: a missing record is skipped, a record failing a
\* contains filter is dropped, the others get _date_human and are kept
SearchFetch ==
    /\ srch.pc = "fetch"
    /\ LET rid == Head(srch.ordered)
           q == [srch EXCEPT !.ordered = Tail(@)]
           pc2 == IF q.ordered = <<>> THEN "aggregate" ELSE "fetch"
       IN srch' =
            IF rid \notin DOMAIN req THEN [q EXCEPT !.pc = pc2]
            ELSE LET obj == req[rid].raw IN
                 IF ~PassesContains(srch.p, obj) THEN [q EXCEPT !.pc = pc2]
                 ELSE IF ~(FloatOk(obj.date) \/ obj.date.t = "absent")
                 THEN [q EXCEPT !.pc = "error", !.code = 500]
                 ELSE [q EXCEPT !.pc = pc2,
                                !.results = Append(@,
                                    [raw |-> obj,
                                     date_human |-> IF obj.date.t = "absent" THEN 0
                                                    ELSE FloatVal(obj.date)])]
    /\ UNCHANGED <<source, ttl_days, now, store, run, ghost>>

\* the aggregates and the response
SearchEnd ==
    /\ srch.pc = "aggregate"
    /\ srch' = [srch EXCEPT
                   !.pc = "done", !.code = 200,
                   !.quiet = (srch.at = ghost.ops),
                   !.resp = [count |-> Len(srch.results),
                             top_ips |-> TopOfAttr(srch.results, "ip"),
                             top_urls |-> TopOf(srch.results, "url"),
                             top_reasons |-> TopOfAttr(srch.results, "reason"),
                             results |-> srch.results]]
    /\ UNCHANGED <<source, ttl_days, now, store, run, ghost>>

(***************************************************************************)
(* Specifications.                                                         *)
(***************************************************************************)
EmptyMap == [x \in {} |-> 0]

InitWith(S, T, conc, nruns) ==
    /\ source \in S
    /\ ttl_days \in T
    /\ now = 0
    /\ seen = EmptyMap
    /\ req = EmptyMap
    /\ zset = EmptyMap
    /\ sets = EmptyMap
    /\ run = [r \in Runs |-> IdleRun]
    /\ srch = IdleSearch
    /\ ghost = [concurrent |-> conc, maxRuns |-> nruns, ops |-> 0, lastExpiry |-> 0, order |-> <<>>,
                t0 |-> [r \in Runs |-> 0], ended |-> [r \in Runs |-> FALSE],
                expAtEnd |-> [r \in Runs |-> 0], horizon |-> EmptyMap,
                wins |-> [r \in Runs |-> EmptyMap],
                commits |-> [r \in Runs |-> EmptyMap],
                dated |-> EmptyMap, poison |-> [r \in Runs |-> EmptyMap],
                batches |-> [r \in Runs |-> 0], lastBatch |-> [r \in Runs |-> <<>>],
                reads |-> [r \in Runs |-> EmptyMap],
                before |-> [r \in Runs |-> [seen |-> EmptyMap, req |-> EmptyMap,
                                            zset |-> EmptyMap, sets |-> EmptyMap]],
                snap |-> [r \in Runs |-> [seen |-> EmptyMap, req |-> EmptyMap,
                                          zset |-> EmptyMap, sets |-> EmptyMap]]]

\* the entries of the default specification: records sharing an id with
\* different payloads, a record without a date, and the soft failures
CoreEntries == {eA1, eA2, eB, eBnoDate, eBadJson, eNoId}

Ingest ==
    \/ \E r \in Runs, c \in 1..MaxChunk : StartRun(r, c)
    \/ \E r \in Runs : ReadBatch(r)
    \/ \E r \in Runs : AdmitStep(r)
    \/ \E r \in Runs : CommitStep(r)

\* two runs one after the other, retention on or off, keys expiring at any point
Init == InitWith(Sources(CoreEntries, MaxLen), 0..MaxTtlDays, FALSE, 2)
Next ==
    \/ Ingest
    \/ Tick
Spec == Init /\ [][Next]_vars

\* two runs whose commands interleave; no key expires
InitConc == InitWith(Sources({eA1, eA2, eB, eIntId}, MaxLen), 0..MaxTtlDays, TRUE, 2)
SpecConc == InitConc /\ [][Ingest]_vars

\* every shape of entry, retention disabled
InitSoft == InitWith(Sources(AllEntries, MaxLen), {0}, FALSE, 2)
SpecSoft == InitSoft /\ [][Ingest]_vars

\* two runs one after the other, either of which may be killed at any point;
\* retention disabled
InitKill == InitWith(Sources(CoreEntries, MaxLen), {0}, FALSE, 2)
NextKill ==
    \/ Ingest
    \/ \E r \in Runs : Kill(r)
SpecKill == InitKill /\ [][NextKill]_vars

\* the requests of the model
Num(k) == TimeArg("num", 0, k, 0)
Windows == {<<0, 3>>, <<1, 2>>, <<2, 1>>}
SearchParams ==
    {Params(Num(w[1]), Num(w[2]), f[1], JAbsent, JAbsent, TAbsent, TAbsent, f[2], MaxLen) :
        w \in Windows,
        f \in {<<JAbsent, "newest">>, <<JAbsent, "oldest">>, <<JStr("1.2.3.4"), "newest">>}}
    \cup {Params(TimeArg("missing", 0, 0, 0), Num(3), JAbsent, JAbsent, JAbsent,
                 TAbsent, TAbsent, "newest", MaxLen),
          Params(Num(0), TimeArg("bad", 0, 0, 0), JAbsent, JAbsent, JAbsent,
                 TAbsent, TAbsent, "newest", MaxLen)}

Search ==
    \/ \E p \in SearchParams : SearchBegin(p)
    \/ SearchIntersect
    \/ SearchFetch
    \/ SearchEnd

\* one run and one request at any point of it; the behaviour is followed up
\* to the response of the request
InitSearch ==
    InitWith({<<eA1>>, <<eA1, eA2>>, <<eB, eA1>>, <<eA1, eB, eA2>>},
             0..MaxTtlDays, FALSE, 1)
NextSearch ==
    \/ srch.pc \notin {"done", "error"} /\ Ingest
    \/ srch.pc \notin {"done", "error"} /\ Tick
    \/ Search
SpecSearch == InitSearch /\ [][NextSearch]_vars

\* requests of every outcome over the index one run builds, with and without
\* retention: start or end missing, unparseable, a date, a number; a filter
\* no attribute set exists for; an empty window
DefaultLimit == 50
Missing == TimeArg("missing", 0, 0, 0)
Bad == TimeArg("bad", 0, 0, 0)
Iso(k) == TimeArg("iso", 0, k, 0)
Req(start, end) ==
    Params(start, end, JAbsent, JAbsent, JAbsent, TAbsent, TAbsent, "newest", DefaultLimit)
\* numbers on both sides of 10^10: 10^10 itself, a thousandth and a second
\* above it, a thousandth below it, and a time of today in milliseconds
At(hi, lo, ms) == TimeArg("num", hi, lo, ms)
BoundaryWindows ==
    {<<At(10000, 0, 0), At(10000, 0, 1)>>,
     <<Num(0), At(10000, 1, 0)>>,
     <<At(0, 0, 500), At(9999, 999999, 999)>>,
     <<Num(1), At(1700000, 2500, 7)>>}
\* substring filters and limits over the whole window: a limit that cuts
\* before a matching record, a needle in another case, limit 0 and 1
ContainsParams ==
    {[Req(Num(0), Num(3)) EXCEPT !.url_contains = JTxt(<<"/", "a">>), !.limit = 2],
     [Req(Num(0), Num(3)) EXCEPT !.url_contains = JTxt(<<"/", "A">>)],
     [Req(Num(0), Num(3)) EXCEPT !.ua_contains = JTxt(<<"M", "o">>), !.order = "oldest"],
     [Req(Num(0), Num(3)) EXCEPT !.ua_contains = JTxt(<<"M", "o">>),
                                 !.url_contains = JTxt(<<"d">>), !.limit = 1],
     [Req(Num(0), Num(3)) EXCEPT !.security_mode = JStr("block"), !.limit = 1],
     [Req(Num(0), Num(3)) EXCEPT !.limit = 0]}
QueryParams ==
    {Req(Missing, Num(3)), Req(Num(0), Missing), Req(Bad, Num(3)), Req(Num(0), Bad),
     Req(Iso(1), Num(3)), Req(Num(0), Num(3)), Req(Num(3), Num(0)),
     [Req(Num(0), Num(3)) EXCEPT !.ip = JStr("9.9.9.9")],
     [Req(Num(0), Num(3)) EXCEPT !.ip = JStr("1.2.3.4"), !.status = JInt(403)]}
    \cup {Req(x[1], x[2]) : x \in BoundaryWindows}
    \cup ContainsParams
Query ==
    \/ \E p \in QueryParams : SearchBegin(p)
    \/ SearchIntersect
    \/ SearchFetch
    \/ SearchEnd
InitQuery ==
    InitWith({<<>>, <<eA1>>, <<eA1, eB, eC>>, <<eC, eBnoDate, eA1>>}, {0, 1}, FALSE, 1)
NextQuery ==
    \/ srch.pc \notin {"done", "error"} /\ Ingest
    \/ srch.pc \notin {"done", "error"} /\ Tick
    \/ Query
SpecQuery == InitQuery /\ [][NextQuery]_vars

\* a source of twelve records with eleven ips (one of them twice), three
\* urls and two reasons next to records without url or reason, indexed by
\* one run without retention; a request is made at any point of the run
\* and is followed to its response
AggIds == <<"a", "b", "c", "d", "e", "f", "g", "h", "i", "j", "k", "l">>
AggIps == <<"10.0.0.1", "10.0.0.2", "10.0.0.3", "10.0.0.4", "10.0.0.5", "10.0.0.3",
            "10.0.0.6", "10.0.0.7", "10.0.0.8", "10.0.0.9", "10.0.0.10", "10.0.0.11">>
AggRec(k) ==
    [Rec(JStr(AggIds[k]), JInt(1 + (k % 3)), JStr(AggIps[k]),
         IF k % 2 = 1 THEN JStr("block") ELSE JStr("allow"), JAbsent,
         IF k % 5 = 0 THEN TAbsent
         ELSE IF k % 3 = 0 THEN JTxt(<<"/">>)
         ELSE IF k % 3 = 1 THEN JTxt(<<"/", "x">>) ELSE JTxt(<<"/", "y">>),
         TAbsent)
     EXCEPT !.reason = IF k % 4 = 0 THEN JAbsent
                       ELSE IF k % 4 = 1 THEN JStr("bot")
                       ELSE IF k % 4 = 2 THEN JStr("dos") ELSE JStr("")]
AggSource(lo, hi) == [i \in 1..(hi - lo + 1) |-> AggRec(lo + i - 1)]
AggParams ==
    {Req(Num(0), Num(3)),
     [Req(Num(0), Num(3)) EXCEPT !.order = "oldest"],
     [Req(Num(1), Num(2)) EXCEPT !.security_mode = JStr("block")],
     [Req(Num(0), Num(3)) EXCEPT !.url_contains = JTxt(<<"/">>), !.limit = 11]}
Aggregate ==
    \/ \E p \in AggParams : SearchBegin(p)
    \/ SearchIntersect
    \/ SearchFetch
    \/ SearchEnd
InitAgg ==
    InitWith({AggSource(1, Len(AggIds)), Reverse(AggSource(1, Len(AggIds))),
              AggSource(2, Len(AggIds)), AggSource(1, 6)}, {0}, FALSE, 1)
NextAgg ==
    \/ srch.pc = "idle" /\ Ingest
    \/ Aggregate
SpecAgg == InitAgg /\ [][NextAgg]_vars

\* two runs one after the other, each of which may be killed, and a request
\* whose steps fall anywhere between their commands; retention disabled
ReaderParams ==
    {Params(Num(0), Num(3), JAbsent, JAbsent, JAbsent, TAbsent, TAbsent, "newest", MaxLen),
     Params(Num(0), Num(3), JStr("1.2.3.4"), JAbsent, JAbsent, TAbsent, TAbsent,
            "oldest", MaxLen)}
Read ==
    \/ \E p \in ReaderParams : SearchBegin(p)
    \/ SearchIntersect
    \/ SearchFetch
    \/ SearchEnd
InitReaders ==
    InitWith({<<eA1>>, <<eA1, eB>>, <<eB, eIntId, eA2>>}, {0}, FALSE, 2)
NextReaders ==
    \/ srch.pc \notin {"done", "error"} /\ Ingest
    \/ srch.pc \notin {"done", "error"} /\ \E r \in Runs : Kill(r)
    \/ Read
SpecReaders == InitReaders /\ [][NextReaders]_vars

(***************************************************************************)
(* Properties.                                                             *)
(***************************************************************************)
Quiescent == \A r \in Runs : run[r].pc \in {"idle", "done", "crashed"}
\* the positions of the entries that reach the dedupe marker of id
Occurs(id) ==
    {i \in 1..Len(source) :
        source[i].shape = "obj" /\ Truthy(source[i].id) /\ source[i].id.s = id}
SrcIds ==
    {source[i].id.s :
        i \in {j \in 1..Len(source) : source[j].shape = "obj" /\ Truthy(source[j].id)}}
First(id) == source[CHOOSE i \in Occurs(id) : \A j \in Occurs(id) : i <= j]
\* the attribute sets a record qualifies for
AttrKeys(e) ==
    {set_key(KindFields[j][1], e[KindFields[j][2]].s) :
        j \in {i \in 1..Len(KindFields) :
                 LET v == e[KindFields[i][2]]
                 IN ~(IsNone(v) \/ (v.t = "str" /\ v.s = ""))}}

\* C1: when two runs are made to completion one after the other over the
\* same source and no key expires from the start of the first to the end of
\* the second, the second reports new_count = 0 and leaves the markers (with
\* their deadlines), the forward records, the time index and every attribute
\* set exactly as the first run left them.
C1_IdempotentIngestion ==
    (/\ ghost.order = <<1, 2>>
     /\ run[1].pc = "done" /\ run[2].pc = "done"
     /\ ghost.lastExpiry <= ghost.t0[1])
    => /\ run[2].new_count = 0
       /\ ghost.snap[2] = ghost.snap[1]
       /\ Snapshot = ghost.snap[1]

C1_Witness ==
    /\ ghost.order = <<1, 2>>
    /\ run[1].pc = "done" /\ run[2].pc = "done"
    /\ ghost.lastExpiry <= ghost.t0[1]
    /\ ttl # 0
    /\ run[1].new_count >= 2
    /\ run[1].chunk # run[2].chunk

\* C2 as stated: after the first run over an empty index, during which no
\* key expired, every id that occurs several times in the source has a
\* forward record and a time-index entry and was committed exactly once.
C2_Original ==
    \A r \in Runs :
        (/\ run[r].pc = "done" /\ ghost.order[1] = r
         /\ ghost.expAtEnd[r] <= ghost.t0[r])
        => \A id \in SrcIds :
               Cardinality(Occurs(id)) >= 2
               => /\ id \in DOMAIN ghost.snap[r].req
                  /\ id \in DOMAIN ghost.snap[r].zset
                  /\ CountOf(ghost.commits[r], id) = 1

\* C2 amended: in a completed run during which no key expires, every id of
\* the source wins the marker exactly when it was not marked before the run,
\* and is committed at most once: exactly once, from its first occurrence,
\* when it was not marked before and that occurrence has a numeric date
\* (it then has its forward record, its time-index entry at that date and
\* its attribute-set memberships at completion), and never otherwise (its
\* forward record and time-index entry are then as before the run);
\* new_count is the number of ids committed.
C2_DedupeWithinRun ==
    \A r \in Runs :
        (run[r].pc = "done" /\ ghost.expAtEnd[r] <= ghost.t0[r])
        => LET S == ghost.snap[r]
               B == ghost.before[r]
               fresh(id) == id \notin DOMAIN B.seen
               new(id) == fresh(id) /\ FloatOk(First(id).date)
           IN /\ \A id \in SrcIds :
                    /\ CountOf(ghost.wins[r], id) = (IF fresh(id) THEN 1 ELSE 0)
                    /\ CountOf(ghost.commits[r], id) = (IF new(id) THEN 1 ELSE 0)
                    /\ new(id) =>
                          /\ id \in DOMAIN S.req /\ S.req[id].raw = First(id)
                          /\ id \in DOMAIN S.zset
                          /\ S.zset[id] = FloatVal(First(id).date)
                          /\ \A k \in AttrKeys(First(id)) :
                                k \in DOMAIN S.sets /\ id \in S.sets[k].mem
                    /\ ~new(id) =>
                          /\ id \in DOMAIN S.req <=> id \in DOMAIN B.req
                          /\ id \in DOMAIN S.req => S.req[id] = B.req[id]
                          /\ id \in DOMAIN S.zset <=> id \in DOMAIN B.zset
                          /\ id \in DOMAIN S.zset => S.zset[id] = B.zset[id]
              /\ run[r].new_count = Cardinality({id \in SrcIds : new(id)})

\* a run that met the same id in two batches with two payloads
C2_Witness ==
    \E r \in Runs :
        /\ run[r].pc = "done" /\ ghost.expAtEnd[r] <= ghost.t0[r]
        /\ run[r].chunk = 1
        /\ \E i, j \in 1..Len(source) : i < j /\ source[i] = eA1 /\ source[j] = eA2
        /\ CountOf(ghost.commits[r], "a") = 1
        /\ ghost.snap[r].req["a"].raw = eA1

\* C3: in every interleaving of two runs over the same source (no key
\* expiring), the SET NX of an id succeeds for at most one run and once, the
\* forward record of an id is written at most once and only by the run that
\* won its marker, and when both runs are done their new_count values sum to
\* the number of ids committed, which is the number of forward records.
C3_NoDoubleCommit ==
    /\ \A id \in SrcIds :
          /\ CountOf(ghost.wins[1], id) + CountOf(ghost.wins[2], id) <= 1
          /\ CountOf(ghost.commits[1], id) + CountOf(ghost.commits[2], id) <= 1
          /\ \A r \in Runs : CountOf(ghost.commits[r], id) <= CountOf(ghost.wins[r], id)
    /\ (run[1].pc = "done" /\ run[2].pc = "done")
       => /\ run[1].new_count + run[2].new_count =
               Cardinality({id \in SrcIds :
                   CountOf(ghost.commits[1], id) + CountOf(ghost.commits[2], id) = 1})
          /\ run[1].new_count + run[2].new_count = Cardinality(DOMAIN req)

\* both runs committed records: their batches interleaved
C3_Witness ==
    /\ run[1].pc = "done" /\ run[2].pc = "done"
    /\ run[1].new_count >= 1 /\ run[2].new_count >= 1
    /\ \E id \in SrcIds : Cardinality(Occurs(id)) >= 2

\* the date of the i-th result of the response
DateOf(i) == FloatVal(srch.resp.results[i].raw.date)
InWindow(d) == TLeq(srch.start_ts, TimeOf(d)) /\ TLeq(TimeOf(d), srch.end_ts)
\* the record field an exact filter of that kind is about
FieldOf(kind) == KindFields[CHOOSE j \in 1..Len(KindFields) : KindFields[j][1] = kind][2]
\* the forward records that match the window and every exact filter supplied
Matching ==
    {req[id].raw : id \in {x \in DOMAIN req :
        /\ FloatOk(req[x].raw.date) /\ InWindow(FloatVal(req[x].raw.date))
        /\ \A i \in 1..Len(Filters(srch.p)) :
              LET f == Filters(srch.p)[i]
                  v == req[x].raw[FieldOf(f[1])]
              IN ~IsNone(v) /\ v.s = f[2]}}

\* C4: in every index state ingestion reaches (no storage command falls
\* inside the request), every record in the results of a Search has its date
\* within the window [start, end] of the request.
C4_RangeCorrectness ==
    (srch.pc = "done" /\ srch.quiet)
    => \A i \in 1..Len(srch.resp.results) : InWindow(DateOf(i))

\* C5: on an index left by completed runs (none in progress, no storage
\* command inside the request), a Search with exact filters only and a limit
\* of at least the number of matches returns exactly the forward records
\* whose date is in the window and whose fields equal every supplied filter.
C5_IntersectionCorrectness ==
    (/\ srch.pc = "done" /\ srch.quiet /\ Quiescent
     /\ srch.p.url_contains.s = <<>> /\ srch.p.ua_contains.s = <<>>
     /\ Cardinality(Matching) <= srch.p.limit)
    => {srch.resp.results[i].raw : i \in 1..Len(srch.resp.results)} = Matching

\* C6: in the results of every Search (here: even of one that no storage
\* command falls inside) the dates of consecutive records are non-increasing
\* with order=newest and non-decreasing with order=oldest.
C6_Ordering ==
    (srch.pc = "done" /\ srch.quiet)
    => \A i \in 1..(Len(srch.resp.results) - 1) :
          IF srch.p.order = "newest" THEN DateOf(i) >= DateOf(i + 1)
          ELSE DateOf(i) <= DateOf(i + 1)

\* the attribute sets that hold id
SetsOf(id) == {k \in DOMAIN sets : id \in sets[k].mem}

\* C7: with retention enabled and no run in progress, an id whose retention
\* horizon (the deadline given to its forward record when it was last
\* committed) has elapsed is absent from the forward store, from the time
\* index and from every attribute set; and no id is present in some of these
\* structures and absent from others.
C7_RetentionSymmetry ==
    (ttl # 0 /\ Quiescent)
    => \A id \in DOMAIN ghost.horizon :
          /\ ghost.horizon[id] <= now
             => /\ id \notin DOMAIN req
                /\ id \notin DOMAIN zset
                /\ SetsOf(id) = {}
          /\ id \in DOMAIN req <=> id \in DOMAIN zset
          /\ id \in DOMAIN req => AttrKeys(req[id].raw) \subseteq SetsOf(id)
          /\ id \notin DOMAIN req => SetsOf(id) = {}

\* C8: with retention enabled and no run in progress, the forward record of
\* an id, its dedupe marker and every attribute set of the record have the
\* same deadline, and an id is a member of an attribute set exactly when it
\* has a forward record carrying that attribute.
C8_SharedHorizon ==
    (ttl # 0 /\ Quiescent)
    => /\ \A id \in DOMAIN req :
             /\ id \in DOMAIN seen /\ seen[id] = req[id].exp
             /\ \A k \in AttrKeys(req[id].raw) :
                   k \in DOMAIN sets /\ id \in sets[k].mem /\ sets[k].exp = req[id].exp
       /\ \A k \in DOMAIN sets : \A id \in sets[k].mem :
             id \in DOMAIN req /\ k \in AttrKeys(req[id].raw)

\* C9: with retention disabled and no run in progress, every id whose marker
\* exists is either fully indexed (forward record, time-index entry and a
\* membership in the set of every non-empty attribute of the record) or was
\* rejected for a missing or non-numeric date and is in none of the forward
\* store, the time index and the attribute sets.
C9_AllOrNothing ==
    (ttl = 0 /\ Quiescent)
    => \A id \in DOMAIN seen :
          \/ /\ id \in DOMAIN req
             /\ id \in DOMAIN zset
             /\ AttrKeys(req[id].raw) \subseteq SetsOf(id)
          \/ /\ ~FloatOk(First(id).date)
             /\ id \notin DOMAIN req
             /\ id \notin DOMAIN zset
             /\ SetsOf(id) = {}

\* the entries the run has to count: not JSON, not an object, no id, an id
\* that is no string, or a newly marked record without a numeric date
SoftFailures ==
    {i \in 1..Len(source) :
        \/ source[i].shape # "obj"
        \/ ~Truthy(source[i].id)
        \/ ~CanEncode(source[i].id)
        \/ /\ ~FloatOk(source[i].date)
           /\ \A j \in Occurs(source[i].id.s) : i <= j}

\* C10: whatever the entries of the source are, a run is never aborted, and
\* the first run over an empty index completes having counted every soft
\* failure in exactly one of bad_json, no_id and no_date.
C10_SoftFailuresNeverAbort ==
    \A r \in Runs :
        /\ run[r].pc # "crashed"
        /\ (run[r].pc = "done" /\ ghost.order[1] = r)
           => run[r].bad_json + run[r].no_id + run[r].no_date = Cardinality(SoftFailures)

\* C11: a Search whose start or end is missing or is neither a number nor a
\* parseable date ends in a client error (a 4xx status), never in an internal
\* failure nor in a response computed over a defaulted window; every other
\* request, also one with no result or with a filter no attribute set
\* exists for, is answered 200 with count = the number of results.
C11_ClientErrors ==
    srch.pc \in {"done", "error"}
    => IF \E x \in {srch.p.start, srch.p.end} : x.k \in {"missing", "bad"}
       THEN srch.pc = "error" /\ srch.code \in 400..499
       ELSE /\ srch.pc = "done" /\ srch.code = 200
            /\ srch.resp.count = Len(srch.resp.results)

\* the number of entries a run has been through: whole batches
Processed(r) ==
    IF run[r].pc \in {"idle", "read"} THEN run[r].start
    ELSE IF run[r].start + run[r].chunk < run[r].total
    THEN run[r].start + run[r].chunk ELSE run[r].total
\* the ids that some key of the index is about
IndexedIds ==
    DOMAIN seen \cup DOMAIN req \cup DOMAIN zset \cup UNION {sets[k].mem : k \in DOMAIN sets}

\* C12: at every point of a run that did not abort, bad_json is the number of
\* entries gone through that are not JSON and no_id the number of those that
\* are objects with an absent, null or empty id; and every marker, forward
\* record, time-index entry and set membership is about the id of an entry
\* that has one: no key is written for a rejected entry.
C12_RejectedEntries ==
    /\ \A r \in Runs :
          run[r].pc # "crashed"
          => /\ run[r].bad_json =
                   Cardinality({i \in 1..Processed(r) : source[i].shape = "badjson"})
             /\ run[r].no_id =
                   Cardinality({i \in 1..Processed(r) :
                       source[i].shape = "obj" /\ ~Truthy(source[i].id)})
    /\ IndexedIds \subseteq SrcIds

\* a completed run that met an entry of each kind
C12_Witness ==
    \E r \in Runs :
        /\ run[r].pc = "done" /\ run[r].chunk = 2
        /\ run[r].bad_json = 1 /\ run[r].no_id = 1 /\ run[r].new_count = 1
        /\ \E i \in 1..Len(source) : source[i] = eNullId

\* C13: no step of a Search, whatever its parameters and its outcome, changes
\* a key of the storage: the source list, the markers, the forward records,
\* the time index and the attribute sets keep their values and deadlines.
C13_SearchReadOnly ==
    [][srch' # srch => UNCHANGED <<source, ttl_days, now, seen, req, zset, sets>>]_vars

\* a request answered with records, one of them skipped as stale, while
\* the run was going on
C13_Witness ==
    /\ srch.pc = "done" /\ ~srch.quiet
    /\ Filters(srch.p) = <<>>
    /\ srch.resp.count >= 1
    /\ Len(srch.ids) > srch.resp.count

\* how often the runs so far have written the forward record of id
Writes(id) == CountOf(ghost.commits[1], id) + CountOf(ghost.commits[2], id)

\* C14 as stated: whatever the retention and however many runs, the forward
\* record of an id is written at most once.
C14_Original ==
    \A id \in SrcIds : Writes(id) <= 1

\* C14: a run writes the forward record of an id only after it has set the
\* id's marker, once for each time it set it; with retention disabled that is
\* once for ever, with retention enabled the record is written again only
\* after the marker has expired; and a forward record leaves the store only
\* when a day passes that reaches its deadline.
C14_RecordLifecycle ==
    [][/\ \A id \in SrcIds :
            /\ \A r \in Runs : CountOf(ghost.commits[r], id)'
                                  <= CountOf(ghost.wins[r], id)'
            /\ ttl = 0 => Writes(id)' <= 1
            /\ Writes(id)' > 1 => ghost.lastExpiry' > 0
       /\ \A k \in DOMAIN req :
            k \notin DOMAIN req' => /\ now' = now + 1
                                    /\ req[k].exp # 0
                                    /\ req[k].exp <= now']_vars

\* the second run writes, after the expiry of marker and record, a record the
\* first run had written
C14_Witness ==
    /\ ttl # 0
    /\ \E id \in SrcIds : /\ CountOf(ghost.commits[1], id) = 1
                          /\ CountOf(ghost.commits[2], id) = 1
                          /\ id \in DOMAIN req
                          /\ ghost.lastExpiry > 0

\* a thousand times the epoch <<h, l, u>>, limb by limb, and 10^10 < n
Times1000(v) ==
    LET us == v[3] * 1000
        sec == v[2] * 1000 + (us \div Limb)
    IN <<v[1] * 1000 + (sec \div Limb), sec % Limb, us % Limb>>
Above1e10(x) == ~TLeq(<<x.hi, x.lo, x.ms * 1000>>, <<10000, 0, 0>>)

\* C15: a numeric start or end above 10^10 resolves to a thousandth of its
\* value, a numeric value up to and including 10^10 resolves to itself.
C15_MillisecondHeuristic ==
    srch.pc \notin {"idle", "error"}
    => /\ srch.p.start.k = "num"
          => IF Above1e10(srch.p.start)
             THEN Times1000(srch.start_ts)
                     = <<srch.p.start.hi, srch.p.start.lo, srch.p.start.ms * 1000>>
             ELSE srch.start_ts
                     = <<srch.p.start.hi, srch.p.start.lo, srch.p.start.ms * 1000>>
       /\ srch.p.end.k = "num"
          => IF Above1e10(srch.p.end)
             THEN Times1000(srch.end_ts)
                     = <<srch.p.end.hi, srch.p.end.lo, srch.p.end.ms * 1000>>
             ELSE srch.end_ts
                     = <<srch.p.end.hi, srch.p.end.lo, srch.p.end.ms * 1000>>

\* start = 10^10 is kept, end = 10^10 + 0.001 is divided
C15_Witness ==
    /\ srch.pc = "done"
    /\ srch.p.start = At(10000, 0, 0) /\ srch.start_ts = <<10000, 0, 0>>
    /\ srch.p.end = At(10000, 0, 1) /\ srch.end_ts = <<10, 0, 1>>

\* the ids whose marker run r set and whose forward record it never wrote
Uncommitted(r) ==
    {id \in SrcIds : CountOf(ghost.wins[r], id) > 0 /\ CountOf(ghost.commits[r], id) = 0}
Written(r) == {id \in SrcIds : CountOf(ghost.commits[r], id) > 0}

\* C16: retention disabled.  The ids a killed run had marked and not begun to
\* commit are in neither the time index nor an attribute set, and stay out:
\* no other run marks or commits them, and a later run that completes counts
\* in new_count exactly the records it wrote, in no_date exactly the dateless
\* records it marked itself, and in bad_json and no_id the entries without id.
C16_OrphanedMarker ==
    \A r1 \in Runs :
       run[r1].pc = "crashed"
       => \A id \in Uncommitted(r1) :
             /\ id \notin DOMAIN zset
             /\ \A k \in DOMAIN sets : id \notin sets[k].mem
             /\ \A r2 \in Runs \ {r1} :
                   /\ id \notin Uncommitted(r2) \cup Written(r2)
                   /\ (run[r2].pc = "done" /\ ghost.order = <<r1, r2>>)
                      => /\ run[r2].new_count = Cardinality(Written(r2))
                         /\ run[r2].no_date = Cardinality(Uncommitted(r2))
                         /\ run[r2].bad_json = Cardinality({i \in 1..Len(source) :
                                                   source[i].shape = "badjson"})
                         /\ run[r2].no_id = Cardinality({i \in 1..Len(source) :
                                                source[i].shape = "obj" /\ ~Truthy(source[i].id)})

\* the first run was killed after marking a dated record, and the second run
\* has completed and committed another record
C16_Witness ==
    /\ ghost.order = <<1, 2>>
    /\ run[1].pc = "crashed" /\ run[2].pc = "done"
    /\ run[2].new_count = 1
    /\ \E id \in Uncommitted(1) : /\ FloatOk(First(id).date)
                                  /\ id \in DOMAIN seen
                                  /\ id \notin DOMAIN req

\* the ids whose present marker was set for an entry without a numeric date,
\* and how often run r has set a marker for such an entry
Poisoned ==
    {id \in DOMAIN seen : id \in DOMAIN ghost.dated /\ ~ghost.dated[id]}
RECURSIVE BagSize(_)
BagSize(b) ==
    IF DOMAIN b = {} THEN 0
    ELSE LET k == CHOOSE x \in DOMAIN b : TRUE
         IN b[k] + BagSize([x \in DOMAIN b \ {k} |-> b[x]])

\* C17 as stated: whatever the retention, no id is counted in no_date more
\* than once over all runs.
C17_Original ==
    \A id \in SrcIds :
        CountOf(ghost.poison[1], id) + CountOf(ghost.poison[2], id) <= 1

\* C17: a run counts in no_date exactly the markers it set for entries
\* without a numeric date, once each.  While such a marker exists, it is kept
\* (it goes only when a day passes that reaches its deadline), no run sets it
\* again and no run writes a forward record, a time-index entry or an
\* attribute-set membership for the id; with retention disabled the id is in
\* none of them, for ever.
C17_PoisonSkip ==
    [][/\ \A r \in Runs :
            run[r].pc' # "admit" => run[r].no_date' = BagSize(ghost.poison[r])'
       /\ \A id \in Poisoned :
            /\ id \notin DOMAIN seen'
                  => now' = now + 1 /\ seen[id] # 0 /\ seen[id] <= now'
            /\ id \in DOMAIN seen' => seen'[id] = seen[id]
            /\ \A r \in Runs : /\ CountOf(ghost.wins[r], id)' = CountOf(ghost.wins[r], id)
                               /\ CountOf(ghost.commits[r], id)' = CountOf(ghost.commits[r], id)
            /\ id \in DOMAIN req' => id \in DOMAIN req /\ req'[id] = req[id]
            /\ id \in DOMAIN zset' => id \in DOMAIN zset /\ zset'[id] = zset[id]
            /\ \A k \in DOMAIN sets' :
                  id \in sets'[k].mem => k \in DOMAIN sets /\ id \in sets[k].mem
            /\ ttl = 0 => /\ id \notin DOMAIN req \cup DOMAIN zset
                          /\ \A k \in DOMAIN sets : id \notin sets[k].mem]_vars

\* retention disabled: the first run counted the dateless record of an id
\* once, and the second run has read the whole source without counting or
\* committing it, although a dated entry of the same id follows
C17_Witness ==
    /\ ttl = 0
    /\ ghost.order = <<1, 2>>
    /\ run[1].pc = "done" /\ run[1].no_date = 1
    /\ run[2].pc = "done" /\ run[2].no_date = 0 /\ run[2].new_count = 0
    /\ \E id \in Poisoned : /\ \E i \in Occurs(id) : FloatOk(source[i].date)
                            /\ id \notin DOMAIN req

\* the time-ordered id list of the request restricted to its candidate set,
\* and the substring tests of a record, letter by letter
Restricted == SelectSeq(srch.ids, LAMBDA x : x \in srch.candidates)
Occurs_in(needle, hay, same(_, _)) ==
    \E k \in 0..(Len(hay) - Len(needle)) :
        \A i \in 1..Len(needle) : same(hay[k + i], needle[i])
UrlOk(obj) ==
    \/ srch.p.url_contains.s = <<>>
    \/ Occurs_in(srch.p.url_contains.s, obj.url.s, LAMBDA a, b : a = b)
UaOk(obj) ==
    \/ srch.p.ua_contains.s = <<>>
    \/ Occurs_in(srch.p.ua_contains.s, obj.user_agent.s,
                 LAMBDA a, b : LowerChar(a) = LowerChar(b))

\* C18: with limit >= 0, and no write or expiry during the request, the
\* results are, in order, the forward records of the first `limit` ids of
\* the restricted list that have a forward record passing url_contains (as
\* written) and ua_contains (whatever the case); hence count <= limit.
C18_ResultPipeline ==
    (srch.pc = "done" /\ srch.quiet /\ srch.p.limit >= 0)
    => LET n == IF srch.p.limit < Len(Restricted) THEN srch.p.limit ELSE Len(Restricted)
           Kept == {i \in 1..n : /\ Restricted[i] \in DOMAIN req
                                 /\ UrlOk(req[Restricted[i]].raw)
                                 /\ UaOk(req[Restricted[i]].raw)}
           Nth(j) == CHOOSE k \in Kept : Cardinality({m \in Kept : m <= k}) = j
       IN /\ srch.resp.count = Cardinality(Kept)
          /\ Len(srch.resp.results) = Cardinality(Kept)
          /\ \A j \in 1..Cardinality(Kept) :
                srch.resp.results[j].raw = req[Restricted[Nth(j)]].raw
          /\ srch.resp.count <= srch.p.limit

\* limit 2 and url_contains "/a": of the first two ids one record matches,
\* and the third id, beyond the cutoff, has a matching record too
C18_Witness ==
    /\ srch.pc = "done" /\ srch.quiet
    /\ srch.p.limit = 2 /\ srch.p.url_contains.s = <<"/", "a">>
    /\ srch.resp.count = 1
    /\ Len(Restricted) = 3
    /\ Restricted[3] \in DOMAIN req /\ UrlOk(req[Restricted[3]].raw)

\* C19: a fetch that finds no forward record for its id leaves the results as
\* they are and goes on with the next id; a fetch that finds a record passing
\* the substring filters appends it; and the request ends with status 200 and
\* count = the number of records appended.
C19_StaleSkipped ==
    [][/\ (srch.pc = "fetch" /\ srch' # srch)
          => LET rid == Head(srch.ordered) IN
             /\ srch'.pc = (IF Len(srch.ordered) > 1 THEN "fetch" ELSE "aggregate")
             /\ srch'.ordered = Tail(srch.ordered)
             /\ rid \notin DOMAIN req => srch'.results = srch.results
             /\ (rid \in DOMAIN req /\ UrlOk(req[rid].raw) /\ UaOk(req[rid].raw))
                   => /\ Len(srch'.results) = Len(srch.results) + 1
                      /\ SubSeq(srch'.results, 1, Len(srch.results)) = srch.results
                      /\ srch'.results[Len(srch'.results)].raw = req[rid].raw
       /\ srch'.pc = "done" => /\ srch'.code = 200
                               /\ srch'.resp.count = Len(srch.results)
                               /\ srch'.resp.results = srch.results]_vars

\* a request with an attribute filter: an id of the time index and of the
\* attribute set has no forward record any more, another id is returned
C19_Witness ==
    /\ srch.pc = "done" /\ srch.quiet /\ srch.code = 200
    /\ Filters(srch.p) # <<>>
    /\ srch.resp.count >= 1
    /\ \E i \in 1..Len(srch.ids) :
          srch.ids[i] \in srch.candidates /\ srch.ids[i] \notin DOMAIN req

\* the values of a field over the returned records, the empty ones left out
ValuesOf(field) ==
    LET all == [i \in 1..Len(srch.resp.results) |-> srch.resp.results[i].raw[field]]
        given(v) == v.t = "str" /\ (IF field = "url" THEN v.s # <<>> ELSE v.s # "")
    IN SelectSeq(all, given)
\* T lists the most frequent values of V: at most ten, each with its number
\* of occurrences, more frequent first and, among equals, first seen first
IsTop(T, V) ==
    LET D == {V[i] : i \in 1..Len(V)}
        cnt(v) == Cardinality({i \in 1..Len(V) : V[i] = v})
        fst(v) == CHOOSE i \in 1..Len(V) : V[i] = v /\ \A j \in 1..(i - 1) : V[j] # v
        before(v, w) == cnt(v) > cnt(w) \/ (cnt(v) = cnt(w) /\ fst(v) < fst(w))
        listed == {T[i].value : i \in 1..Len(T)}
    IN /\ Len(T) = (IF Cardinality(D) < 10 THEN Cardinality(D) ELSE 10)
       /\ \A i \in 1..Len(T) : T[i].value \in D /\ T[i].count = cnt(T[i].value)
       /\ \A i, j \in 1..Len(T) : i < j => before(T[i].value, T[j].value)
       /\ \A v \in D \ listed : \A w \in listed : before(w, v)

\* C20: top_ips, top_urls and top_reasons of a response are the at most ten
\* most frequent non-empty values of ip, url and reason among the returned
\* records, with their counts, by descending count and then first occurrence.
C20_Aggregates ==
    srch.pc = "done"
    => /\ IsTop(srch.resp.top_ips, ValuesOf("ip"))
       /\ IsTop(srch.resp.top_urls, ValuesOf("url"))
       /\ IsTop(srch.resp.top_reasons, ValuesOf("reason"))

\* twelve records returned with eleven ips, one of them twice: ten ips are
\* listed, the double one first, then ips seen once each
C20_Witness ==
    /\ srch.pc = "done"
    /\ srch.resp.count = Len(AggIds)
    /\ Cardinality({ValuesOf("ip")[i] : i \in 1..Len(ValuesOf("ip"))}) = 11
    /\ Len(srch.resp.top_ips) = 10
    /\ srch.resp.top_ips[1] = [value |-> JStr("10.0.0.3"), count |-> 2]
    /\ srch.resp.top_ips[2].count = 1 /\ srch.resp.top_ips[3].count = 1
    /\ Len(srch.resp.top_reasons) = 2

\* C21: with retention disabled and no run in progress, every id whose marker
\* was set for an entry with a numeric date has that entry, unchanged, as its
\* forward record, is in the time index with the entry's date as score, and
\* is a member of exactly the sets (kind, str(value)) of the entry's attributes
\* that are neither missing, null nor empty.
C21_CommitFootprint ==
    Quiescent
    => \A id \in DOMAIN seen :
          FloatOk(First(id).date)
          => /\ id \in DOMAIN req /\ req[id].raw = First(id)
             /\ id \in DOMAIN zset /\ zset[id] = FloatVal(First(id).date)
             /\ SetsOf(id) = AttrKeys(First(id))

\* C22: a run of batch size c over a source of N entries makes at most
\* ceil(N / c) batches; each batch reads at most c entries at consecutive
\* positions; no position is read twice; the second pipeline of a batch is
\* sent only when every answer of the first has arrived; and a run that has
\* ended has read every position 1..N.
C22_BoundedBatches ==
    \A r \in Runs :
       run[r].pc # "idle"
       => LET N == run[r].total
              c == run[r].chunk
              b == ghost.lastBatch[r]
          IN /\ ghost.batches[r] <= (N + c - 1) \div c
             /\ Len(b) <= c
             /\ \A j \in 1..(Len(b) - 1) : b[j + 1] = b[j] + 1
             /\ \A i \in DOMAIN ghost.reads[r] : i \in 1..N /\ ghost.reads[r][i] = 1
             /\ run[r].pc = "commit" => Len(run[r].is_new_list) = Len(run[r].parsed)
             /\ run[r].pc \in {"done", "crashed"} => DOMAIN ghost.reads[r] = 1..N

\* C23: whenever a run is not in the middle of its second pipeline, new_count
\* is the number of forward records the run has written: every record the
\* commit pass of a batch queued and counted was sent at the end of that
\* batch, and none was dropped.
C23_CommitWritesExecuted ==
    \A r \in Runs :
       run[r].pc # "commit" => run[r].new_count = BagSize(ghost.commits[r])

\* C24: retention disabled.  At every point of every interleaving of runs and
\* requests, the members of every attribute set are in the time index, the
\* ids of the time index have a forward record, the ids with a forward record
\* have their marker, and every id a request is about to fetch has a forward
\* record.
C24_WriteOrder ==
    /\ \A k \in DOMAIN sets : sets[k].mem \subseteq DOMAIN zset
    /\ DOMAIN zset \subseteq DOMAIN req
    /\ DOMAIN req \subseteq DOMAIN seen
    /\ srch.pc = "fetch" => \A i \in 1..Len(srch.ordered) : srch.ordered[i] \in DOMAIN req

\* a request is fetching while a run is in the middle of its second pipeline,
\* with writes made since the request read the time index
C24_Witness ==
    /\ srch.pc = "fetch"
    /\ srch.at < ghost.ops
    /\ \E r \in Runs : /\ run[r].pc = "commit"
                       /\ Head(run[r].pipe).op \in {"zadd", "sadd"}
    /\ \E id \in DOMAIN req : id \notin DOMAIN zset

=============================================================================
